---- MODULE Spec2Model ----
(***************************************************************************)
(* A model of LWM (src/lwm.cpp): the event-driven window/dialog state      *)
(* machine of class WM, together with the part of the X server it talks to *)
(* (window existence and map state, input focus, geometry, the queue of    *)
(* substructure events).                                                   *)
(***************************************************************************)
EXTENDS Integers, Sequences, FiniteSets, TLC

(***************************************************************************)
(* Bounds of the model.                                                    *)
(***************************************************************************)
NumDialogIds == 2
MaxEvents == 2
MaxMinimized == 2
MaxInput == 2
MaxPresses == 2
MaxLogged == 2

(***************************************************************************)
(* Program and protocol constants.                                         *)
(***************************************************************************)
XCB_NONE == 0
PointerRoot == 1
Root == 2
SNAP_THRESHOLD == 10
RUNNER_WIDTH == 300
RUNNER_HEIGHT == 50
MIN_SIZE == 50
XK_f == 102
XK_e == 101
XK_q == 113
XK_r == 114
XK_i == 105
XK_m == 109
XK_n == 110
XK_y == 121
XK_Y == 89
XK_Tab == 65289
XK_Escape == 65307
XK_Return == 65293
XK_BackSpace == 65288

\* the identifiers of the clients' windows and those xcb_generate_id hands out
Clients == {3, 4, 5}
DialogIds == { 5 + i : i \in 1..NumDialogIds }
Windows == {Root} \cup Clients \cup DialogIds
\* every value an xcb_window_t of the model can hold
WindowIds == {XCB_NONE, PointerRoot} \cup Windows

VARIABLES
    \* ---- class WM ----
    m_windowList, m_currentWindowIndex, m_minimizedWindows,
    m_isRunnerActive, m_runnerWindow, m_runnerInput,
    m_isExitConfirmationActive, m_exitConfirmationWindow,
    m_isHelpActive, m_helpWindow,
    m_geometryCache, m_originalGeometry,
    moveStart, resizeStart,
    m_screenWidth, m_screenHeight,
    running,
    \* ---- the X server ----
    xstate,      \* window -> "none" (no such window) | "unmapped" | "mapped"
    xgeom,       \* window -> geometry
    netWmState,  \* windows carrying _NET_WM_STATE_FULLSCREEN
    enterMask,   \* windows on which the WM selected ENTER_WINDOW
    focus,       \* the input focus
    events,      \* substructure events sent to the WM, not yet read
    presses,     \* how many button presses the user has made
    \* ---- what the WM did last (outputs) ----
    examined,    \* candidates examined by the last focusNextWindow
    lastApplied, \* the last configure of a move: raw and applied position
    launched,    \* the commands handed to executeCommand
    \* ---- class Logger ----
    logger       \* its members, its two threads and its file

vars == << m_windowList, m_currentWindowIndex, m_minimizedWindows,
           m_isRunnerActive, m_runnerWindow, m_runnerInput,
           m_isExitConfirmationActive, m_exitConfirmationWindow,
           m_isHelpActive, m_helpWindow,
           m_geometryCache, m_originalGeometry,
           moveStart, resizeStart, m_screenWidth, m_screenHeight, running,
           xstate, xgeom, netWmState, enterMask, focus, events, presses,
           examined, lastApplied, launched, logger >>

NoApplied == [ kind |-> "none" ]

(***************************************************************************)
(* The state as one record, so that a handler is the composition of the    *)
(* calls it makes.  examined, lastApplied and launched describe the event  *)
(* just handled: every handler starts with them cleared.                   *)
(***************************************************************************)
St ==
    [ m_windowList |-> m_windowList,
      m_currentWindowIndex |-> m_currentWindowIndex,
      m_minimizedWindows |-> m_minimizedWindows,
      m_isRunnerActive |-> m_isRunnerActive,
      m_runnerWindow |-> m_runnerWindow,
      m_runnerInput |-> m_runnerInput,
      m_isExitConfirmationActive |-> m_isExitConfirmationActive,
      m_exitConfirmationWindow |-> m_exitConfirmationWindow,
      m_isHelpActive |-> m_isHelpActive,
      m_helpWindow |-> m_helpWindow,
      m_geometryCache |-> m_geometryCache,
      m_originalGeometry |-> m_originalGeometry,
      moveStart |-> moveStart,
      resizeStart |-> resizeStart,
      m_screenWidth |-> m_screenWidth,
      m_screenHeight |-> m_screenHeight,
      running |-> running,
      xstate |-> xstate,
      xgeom |-> xgeom,
      netWmState |-> netWmState,
      enterMask |-> enterMask,
      focus |-> focus,
      events |-> events,
      presses |-> presses,
      examined |-> 0,
      lastApplied |-> NoApplied,
      launched |-> << >>,
      logger |-> logger ]

Becomes(s) ==
    /\ m_windowList' = s.m_windowList
    /\ m_currentWindowIndex' = s.m_currentWindowIndex
    /\ m_minimizedWindows' = s.m_minimizedWindows
    /\ m_isRunnerActive' = s.m_isRunnerActive
    /\ m_runnerWindow' = s.m_runnerWindow
    /\ m_runnerInput' = s.m_runnerInput
    /\ m_isExitConfirmationActive' = s.m_isExitConfirmationActive
    /\ m_exitConfirmationWindow' = s.m_exitConfirmationWindow
    /\ m_isHelpActive' = s.m_isHelpActive
    /\ m_helpWindow' = s.m_helpWindow
    /\ m_geometryCache' = s.m_geometryCache
    /\ m_originalGeometry' = s.m_originalGeometry
    /\ moveStart' = s.moveStart
    /\ resizeStart' = s.resizeStart
    /\ m_screenWidth' = s.m_screenWidth
    /\ m_screenHeight' = s.m_screenHeight
    /\ running' = s.running
    /\ xstate' = s.xstate
    /\ xgeom' = s.xgeom
    /\ netWmState' = s.netWmState
    /\ enterMask' = s.enterMask
    /\ focus' = s.focus
    /\ events' = s.events
    /\ examined' = s.examined
    /\ lastApplied' = s.lastApplied
    /\ launched' = s.launched
    /\ presses' = s.presses
    /\ logger' = s.logger

(***************************************************************************)
(* Sequences and arithmetic as the C++ library computes them.              *)
(***************************************************************************)
Abs(n) == IF n < 0 THEN -n ELSE n

Max(a, b) == IF a < b THEN b ELSE a

\* C++ integer division truncates toward zero
CDiv(a, b) == IF a >= 0 THEN a \div b ELSE -((-a) \div b)

Range(q) == { q[i] : i \in 1..Len(q) }

Contains(q, w) == \E i \in 1..Len(q) : q[i] = w

\* std::find: the first position holding w (1-based), 0 for end()
Find(q, w) ==
    IF Contains(q, w)
    THEN CHOOSE i \in 1..Len(q) : q[i] = w /\ \A j \in 1..(i - 1) : q[j] # w
    ELSE 0

\* vector::erase(it)
EraseAt(q, i) == [ j \in 1..(Len(q) - 1) |-> IF j < i THEN q[j] ELSE q[j + 1] ]

\* the geometry of a window that does not exist
NoGeometry == [ x |-> 0, y |-> 0, width |-> 0, height |-> 0 ]

Geometry(x, y, width, height) ==
    [ x |-> x, y |-> y, width |-> width, height |-> height ]

\* std::map::erase(key)
MapErase(m, w) ==
    IF (DOMAIN m) \ {w} = {} THEN << >>
    ELSE [ k \in (DOMAIN m) \ {w} |-> m[k] ]

\* std::map::operator[]=
MapPut(m, w, v) == [ k \in (DOMAIN m) \cup {w} |-> IF k = w THEN v ELSE m[k] ]

(***************************************************************************)
(* class Logger.  The dispatch thread (main) calls log() and, at the end   *)
(* of main, the destructor; the worker thread runs logWorker.  A step is   *)
(* what a thread does between two points where the other can interleave:   *)
(* taking m_mutex, releasing it, blocking in and waking from m_cv.wait.    *)
(***************************************************************************)
\* the Logger after its constructor: debugLogs tells whether DEBUG_LOGS is
\* defined in the build
LoggerStart(debugLogs) ==
    [ DEBUG_LOGS |-> debugLogs,
      m_queue |-> << >>,
      m_active |-> TRUE,
      m_mutex |-> "free",       \* "free", or the thread that holds it
      main |-> "run",           \* where the dispatch thread is
      worker |-> "start",       \* where the worker thread is
      opened |-> FALSE,         \* the ofstream opened the file
      logFile |-> << >>,        \* the lines written to the file
      accepted |-> << >>,       \* the messages log() pushed
      logged |-> 0 ]            \* how many log() calls were made

\* m_cv.notify_one / notify_all: the worker is the only thread that waits
notify(l) ==
    IF l.worker = "blocked" THEN [ l EXCEPT !.worker = "woken" ] ELSE l

\* log(msg) up to the lock_guard
logEnter(l) ==
    IF ~ l.DEBUG_LOGS
    THEN [ l EXCEPT !.logged = @ + 1 ]
    ELSE [ l EXCEPT !.logged = @ + 1, !.m_mutex = "main", !.main = "log_push" ]

\* m_queue.push(msg); m_cv.notify_one()
logPush(l, msg) ==
    notify([ l EXCEPT !.m_queue = Append(@, msg),
                      !.accepted = Append(@, msg),
                      !.main = "log_unlock" ])

\* the end of log(): the lock_guard releases m_mutex
logLeave(l) == [ l EXCEPT !.m_mutex = "free", !.main = "run" ]

\* ~Logger: lock_guard taken
destructorEnter(l) == [ l EXCEPT !.m_mutex = "main", !.main = "dtor_set" ]

\* m_active = false; the lock_guard's scope ends
destructorClear(l) ==
    [ l EXCEPT !.m_active = FALSE, !.m_mutex = "free", !.main = "dtor_notify" ]

\* ~Logger going on to join without m_cv.notify_all()
destructorJoinsUnnotified(l) == [ l EXCEPT !.main = "dtor_join" ]

\* m_cv.notify_all()
destructorNotify(l) == [ notify(l) EXCEPT !.main = "dtor_join" ]

\* m_loggerThread.join() returns
destructorJoin(l) == [ l EXCEPT !.main = "joined" ]

\* the predicate of m_cv.wait
waitPredicate(l) == l.m_queue # << >> \/ ~ l.m_active

\* logWorker leaving the loop as soon as m_active is false
logWorkerNoDrain(l, opens) ==
    CASE l.worker = "start" ->
            IF opens THEN [ l EXCEPT !.opened = TRUE, !.worker = "lock" ]
            ELSE [ l EXCEPT !.worker = "done" ]
      [] l.worker \in {"lock", "woken"} ->
            [ l EXCEPT !.m_mutex = "worker", !.worker = "wait" ]
      [] l.worker = "wait" ->
            IF ~ l.m_active
            THEN [ l EXCEPT !.m_mutex = "free", !.worker = "close" ]
            ELSE IF waitPredicate(l) THEN [ l EXCEPT !.worker = "drain" ]
            ELSE [ l EXCEPT !.m_mutex = "free", !.worker = "blocked" ]
      [] l.worker = "drain" ->
            IF l.m_queue # << >>
            THEN [ l EXCEPT !.logFile = Append(@, Head(l.m_queue)),
                            !.m_queue = Tail(@) ]
            ELSE [ l EXCEPT !.m_mutex = "free", !.worker = "lock" ]
      [] l.worker = "close" -> [ l EXCEPT !.worker = "done" ]
      [] OTHER -> l

\* one step of logWorker; opens: whether the ofstream opens the file
logWorker(l, opens) ==
    CASE l.worker = "start" ->
            IF opens THEN [ l EXCEPT !.opened = TRUE, !.worker = "lock" ]
            ELSE [ l EXCEPT !.worker = "done" ]
      \* std::unique_lock at the top of the loop, or m_cv.wait taking the
      \* mutex again after a wakeup
      [] l.worker \in {"lock", "woken"} ->
            [ l EXCEPT !.m_mutex = "worker", !.worker = "wait" ]
      \* m_cv.wait tests its predicate; it releases the mutex and blocks if
      \* the predicate is false
      [] l.worker = "wait" ->
            IF waitPredicate(l) THEN [ l EXCEPT !.worker = "drain" ]
            ELSE [ l EXCEPT !.m_mutex = "free", !.worker = "blocked" ]
      \* the inner loop, one message a step; then the test for the break,
      \* and the unique_lock's scope ends
      [] l.worker = "drain" ->
            IF l.m_queue # << >>
            THEN [ l EXCEPT !.logFile = Append(@, Head(l.m_queue)),
                            !.m_queue = Tail(@) ]
            ELSE IF ~ l.m_active /\ l.m_queue = << >>
                 THEN [ l EXCEPT !.m_mutex = "free", !.worker = "close" ]
                 ELSE [ l EXCEPT !.m_mutex = "free", !.worker = "lock" ]
      \* logFile.close() and the thread's end
      [] l.worker = "close" -> [ l EXCEPT !.worker = "done" ]
      [] OTHER -> l

(***************************************************************************)
(* The X server's side of the requests the WM issues.                      *)
(***************************************************************************)
Exists(s, w) == w \in Windows /\ s.xstate[w] \in {"unmapped", "mapped"}

Viewable(s, w) == w \in Windows /\ s.xstate[w] = "mapped"

\* xcb_map_window issued by the WM itself (not redirected)
XMapWindow(s, w) ==
    IF Exists(s, w) /\ w # Root
    THEN [ s EXCEPT !.xstate[w] = "mapped" ]
    ELSE s

\* the focus reverts to PointerRoot (the revert-to of every
\* xcb_set_input_focus of the WM) when the focus window stops being viewable
XRevertFocus(s, w) == IF s.focus = w THEN [ s EXCEPT !.focus = PointerRoot ] ELSE s

XUnmapWindow(s, w) ==
    IF Viewable(s, w) /\ w # Root
    THEN XRevertFocus([ s EXCEPT !.xstate[w] = "unmapped" ], w)
    ELSE s

\* xcb_destroy_window; the root's SUBSTRUCTURE_NOTIFY mask (selectInputOnRoot)
\* makes the server report it to the WM
XDestroyWindow(s, w) ==
    IF Exists(s, w) /\ w # Root
    THEN XRevertFocus(
           [ s EXCEPT !.xstate[w] = "none",
                      !.xgeom[w] = NoGeometry,
                      !.netWmState = @ \ {w},
                      !.enterMask = @ \ {w},
                      !.events = Append(@, [ type |-> "DestroyNotify", window |-> w ]) ],
           w)
    ELSE s

\* xcb_set_input_focus(XCB_INPUT_FOCUS_POINTER_ROOT, w): a window must be
\* viewable (BadMatch otherwise, BadWindow if it does not exist); the value
\* PointerRoot is itself a legal focus
XSetInputFocus(s, w) ==
    IF Viewable(s, w) \/ w = PointerRoot
    THEN [ s EXCEPT !.focus = w ]
    ELSE s

XCreateWindow(s, w, g) ==
    [ s EXCEPT !.xstate[w] = "unmapped", !.xgeom[w] = g ]

\* xcb_configure_window with the X and Y bits
XConfigurePosition(s, w, x, y) ==
    IF Exists(s, w) /\ w # Root
    THEN [ s EXCEPT !.xgeom[w].x = x, !.xgeom[w].y = y ]
    ELSE s

\* xcb_configure_window with the WIDTH and HEIGHT bits (a zero size is a
\* BadValue error)
XConfigureSize(s, w, width, height) ==
    IF Exists(s, w) /\ w # Root /\ width # 0 /\ height # 0
    THEN [ s EXCEPT !.xgeom[w].width = width, !.xgeom[w].height = height ]
    ELSE s

\* xcb_generate_id: an identifier nothing refers to any more
Unreferenced(s, d) ==
    /\ s.xstate[d] = "none"
    /\ ~ Contains(s.m_windowList, d)
    /\ ~ Contains(s.m_minimizedWindows, d)
    /\ d \notin DOMAIN s.m_geometryCache
    /\ d \notin DOMAIN s.m_originalGeometry
    /\ s.moveStart.window # d
    /\ s.resizeStart.window # d
    /\ \A i \in 1..Len(s.events) : s.events[i].window # d

CanGenerateId(s) == \E d \in DialogIds : Unreferenced(s, d)

GenerateId(s) ==
    CHOOSE d \in DialogIds :
        Unreferenced(s, d) /\ \A e \in DialogIds : Unreferenced(s, e) => d <= e


\* xcb_configure_window with the X, Y, WIDTH and HEIGHT bits
XConfigureWindow(s, w, g) ==
    IF Exists(s, w) /\ w # Root
    THEN [ s EXCEPT !.xgeom[w] = g ]
    ELSE s

(***************************************************************************)
(* class WM: geometry cache.                                               *)
(***************************************************************************)
invalidateGeometryCache(s, w) ==
    [ s EXCEPT !.m_geometryCache = MapErase(@, w) ]

FallbackGeometry == Geometry(0, 0, 100, 100)

\* the value getWindowGeometry returns
getWindowGeometry(s, w) ==
    IF w \in DOMAIN s.m_geometryCache THEN s.m_geometryCache[w]
    ELSE IF ~ Exists(s, w) THEN FallbackGeometry
    ELSE s.xgeom[w]

\* getWindowGeometry caching the fallback rectangle of a failed query
getWindowGeometryCachesFallback(s, w) ==
    IF w \in DOMAIN s.m_geometryCache THEN s
    ELSE IF ~ Exists(s, w)
    THEN [ s EXCEPT !.m_geometryCache = MapPut(@, w, FallbackGeometry) ]
    ELSE [ s EXCEPT !.m_geometryCache = MapPut(@, w, s.xgeom[w]) ]

\* the state getWindowGeometry leaves
getWindowGeometryCached(s, w) ==
    IF w \in DOMAIN s.m_geometryCache THEN s
    ELSE IF ~ Exists(s, w) THEN s
    ELSE [ s EXCEPT !.m_geometryCache = MapPut(@, w, s.xgeom[w]) ]

(***************************************************************************)
(* class WM: focus and stacking.                                           *)
(***************************************************************************)
focusWindow(s, w) ==
    IF w = XCB_NONE THEN s
    ELSE XSetInputFocus(XMapWindow(s, w), w)

resetFocus(s) ==
    IF s.m_windowList # << >>
    THEN focusWindow(s, s.m_windowList[Len(s.m_windowList)])
    ELSE XSetInputFocus(s, Root)

\* the loop of focusNextWindow from its i-th iteration on
RECURSIVE focusNextScan(_, _)
focusNextScan(s, i) ==
    LET sz == Len(s.m_windowList)
    IN  IF i >= sz THEN s
        ELSE LET idx == (s.m_currentWindowIndex + 1) % sz
                 w == s.m_windowList[idx + 1]
                 s1 == [ s EXCEPT !.m_currentWindowIndex = idx,
                                  !.examined = i + 1 ]
             IN  IF Viewable(s1, w) THEN focusWindow(s1, w)
                 ELSE focusNextScan(s1, i + 1)

\* focusNextWindow with the scan starting at the current index itself
focusNextWindowFromCurrent(s) ==
    IF s.m_windowList = << >> THEN [ s EXCEPT !.examined = 0 ]
    ELSE focusNextScan([ s EXCEPT !.examined = 0,
                                  !.m_currentWindowIndex =
                                      (@ - 1) % Len(s.m_windowList) ], 0)

focusNextWindow(s) ==
    IF s.m_windowList = << >> THEN [ s EXCEPT !.examined = 0 ]
    ELSE focusNextScan([ s EXCEPT !.examined = 0 ], 0)

(***************************************************************************)
(* class WM: pop-up dialogs.                                               *)
(***************************************************************************)
createPopUpWindow(s, winVar, width, height, activeFlag) ==
    IF s[activeFlag] THEN s
    ELSE LET id == GenerateId(s)
             x == CDiv(s.m_screenWidth - width, 2)
             y == CDiv(s.m_screenHeight - height, 2)
             s1 == [ s EXCEPT ![activeFlag] = TRUE, ![winVar] = id ]
             s2 == XMapWindow(XCreateWindow(s1, id, Geometry(x, y, width, height)), id)
             s3 == [ s2 EXCEPT !.m_windowList = Append(@, id) ]
             s4 == [ s3 EXCEPT !.m_currentWindowIndex = Len(s3.m_windowList) - 1 ]
         IN  focusWindow(s4, id)

destroyPopUpWindow(s, winVar, activeFlag) ==
    IF ~ s[activeFlag] \/ s[winVar] = XCB_NONE THEN s
    ELSE LET w == s[winVar]
             s1 == XDestroyWindow(XUnmapWindow(s, w), w)
             it == Find(s1.m_windowList, w)
             s2 == IF it # 0
                   THEN LET l == EraseAt(s1.m_windowList, it)
                        IN  [ s1 EXCEPT !.m_windowList = l,
                                        !.m_currentWindowIndex =
                                            IF @ >= Len(l) THEN 0 ELSE @ ]
                   ELSE s1
             s3 == [ s2 EXCEPT ![winVar] = XCB_NONE, ![activeFlag] = FALSE ]
         IN  resetFocus(s3)

createExitConfirmationDialog(s) ==
    createPopUpWindow(s, "m_exitConfirmationWindow", 300, 100,
                      "m_isExitConfirmationActive")

destroyExitConfirmationDialog(s) ==
    destroyPopUpWindow(s, "m_exitConfirmationWindow", "m_isExitConfirmationActive")

createRunnerDialog(s) ==
    [ createPopUpWindow(s, "m_runnerWindow", RUNNER_WIDTH, RUNNER_HEIGHT,
                        "m_isRunnerActive")
      EXCEPT !.m_runnerInput = << >> ]

destroyRunnerDialog(s) ==
    [ destroyPopUpWindow(s, "m_runnerWindow", "m_isRunnerActive")
      EXCEPT !.m_runnerInput = << >> ]

createHelpDialog(s) ==
    createPopUpWindow(s, "m_helpWindow", 400, 240, "m_isHelpActive")

destroyHelpDialog(s) ==
    destroyPopUpWindow(s, "m_helpWindow", "m_isHelpActive")

\* std::exit(0)
exitProcess(s) == [ s EXCEPT !.running = FALSE ]

handleExitConfirmationKeypress(s, ks) ==
    IF ks = XK_y \/ ks = XK_Y THEN exitProcess(s)
    ELSE IF ks = XK_n \/ ks = XK_Escape THEN destroyExitConfirmationDialog(s)
    ELSE s

\* fork + exec of a non-empty command
executeCommand(s, cmd) ==
    IF cmd = << >> THEN s
    ELSE [ s EXCEPT !.launched = Append(@, cmd) ]

\* handleRunnerInput destroying the dialog before it runs the command
handleRunnerInputDestroysFirst(s, ks) ==
    IF ks = XK_Escape THEN destroyRunnerDialog(s)
    ELSE IF ks = XK_Return
         THEN LET s1 == destroyRunnerDialog(s)
              IN  executeCommand(s1, s1.m_runnerInput)
    ELSE IF ks = XK_BackSpace
         THEN IF s.m_runnerInput # << >>
              THEN [ s EXCEPT !.m_runnerInput = SubSeq(@, 1, Len(@) - 1) ]
              ELSE s
    ELSE IF ks >= 32 /\ ks <= 126
         THEN [ s EXCEPT !.m_runnerInput = Append(@, ks) ]
    ELSE s

\* handleRunnerInput appending whatever is not Escape, Return or BackSpace
handleRunnerInputAppendsAny(s, ks) ==
    IF ks = XK_Escape THEN destroyRunnerDialog(s)
    ELSE IF ks = XK_Return
         THEN destroyRunnerDialog(executeCommand(s, s.m_runnerInput))
    ELSE IF ks = XK_BackSpace
         THEN IF s.m_runnerInput # << >>
              THEN [ s EXCEPT !.m_runnerInput = SubSeq(@, 1, Len(@) - 1) ]
              ELSE s
    ELSE [ s EXCEPT !.m_runnerInput = Append(@, ks) ]

handleRunnerInput(s, ks) ==
    IF ks = XK_Escape THEN destroyRunnerDialog(s)
    ELSE IF ks = XK_Return
         THEN destroyRunnerDialog(executeCommand(s, s.m_runnerInput))
    ELSE IF ks = XK_BackSpace
         THEN IF s.m_runnerInput # << >>
              THEN [ s EXCEPT !.m_runnerInput = SubSeq(@, 1, Len(@) - 1) ]
              ELSE s
    ELSE IF ks >= 32 /\ ks <= 126
         THEN [ s EXCEPT !.m_runnerInput = Append(@, ks) ]
    ELSE s

(***************************************************************************)
(* class WM: fullscreen.                                                   *)
(***************************************************************************)
\* what lastApplied tells of a toggleFullscreen: whether the window entered
\* fullscreen, whether a saved geometry was put back, and the geometry the
\* server had for the window before
ToggleApplied(s, w, isFS) ==
    [ kind |-> "fullscreen", window |-> w,
      entered |-> ~ isFS,
      restored |-> isFS /\ w \in DOMAIN s.m_originalGeometry,
      before |-> IF Exists(s, w) THEN s.xgeom[w] ELSE NoGeometry ]

\* toggleFullscreen saving the geometry only after the window was configured
toggleFullscreenSavesAfter(s, w) ==
    IF w = XCB_NONE THEN s
    ELSE LET isFS == Exists(s, w) /\ w \in s.netWmState
             sFinal ==
               IF ~ isFS
               THEN LET s1 == IF Exists(s, w)
                              THEN [ s EXCEPT !.netWmState = @ \cup {w} ]
                              ELSE s
                        s2 == XConfigureWindow(s1, w,
                                  Geometry(0, 0, s.m_screenWidth, s.m_screenHeight))
                        g == getWindowGeometry(s2, w)
                    IN  [ getWindowGeometryCached(s2, w)
                          EXCEPT !.m_originalGeometry = MapPut(@, w, g) ]
               ELSE LET s1 == IF w \in DOMAIN s.m_originalGeometry
                              THEN [ XConfigureWindow(s, w, s.m_originalGeometry[w])
                                     EXCEPT !.m_originalGeometry = MapErase(@, w) ]
                              ELSE s
                    IN  [ s1 EXCEPT !.netWmState = @ \ {w} ]
         IN  [ invalidateGeometryCache(sFinal, w)
               EXCEPT !.lastApplied = ToggleApplied(s, w, isFS) ]

toggleFullscreen(s, w) ==
    IF w = XCB_NONE THEN s
    ELSE LET isFS == Exists(s, w) /\ w \in s.netWmState
             sFinal ==
               IF ~ isFS
               THEN LET g == getWindowGeometry(s, w)
                        s1 == getWindowGeometryCached(s, w)
                        s2 == [ s1 EXCEPT !.m_originalGeometry = MapPut(@, w, g) ]
                        s3 == IF Exists(s2, w)
                              THEN [ s2 EXCEPT !.netWmState = @ \cup {w} ]
                              ELSE s2
                    IN  XConfigureWindow(s3, w,
                            Geometry(0, 0, s.m_screenWidth, s.m_screenHeight))
               ELSE LET s1 == IF w \in DOMAIN s.m_originalGeometry
                              THEN [ XConfigureWindow(s, w, s.m_originalGeometry[w])
                                     EXCEPT !.m_originalGeometry = MapErase(@, w) ]
                              ELSE s
                    IN  [ s1 EXCEPT !.netWmState = @ \ {w} ]
         IN  [ invalidateGeometryCache(sFinal, w)
               EXCEPT !.lastApplied = ToggleApplied(s, w, isFS) ]


(***************************************************************************)
(* class WM: keyboard.                                                     *)
(***************************************************************************)
\* the keyboard mapping: a key code is named by the keysym of its column 0;
\* column 1 of a letter key holds the capital letter
KeysymTable(code, col) ==
    IF col = 1 /\ code >= 97 /\ code <= 122 THEN code - 32 ELSE code

getKeysym(code, state) ==
    LET st == state \ {"Lock", "Mod2"}
        col == IF "Shift" \in st THEN 1 ELSE 0
    IN  KeysymTable(code, col)

\* the XK_m case of handleKeyPress
minimizeWindow(s, foc) ==
    IF /\ foc # XCB_NONE
       /\ foc # s.m_runnerWindow
       /\ foc # s.m_exitConfirmationWindow
       /\ foc # s.m_helpWindow
    THEN LET it == Find(s.m_windowList, foc)
             s1 == IF it # 0
                   THEN [ s EXCEPT !.m_windowList = EraseAt(@, it) ]
                   ELSE s
             s2 == [ s1 EXCEPT !.m_minimizedWindows = Append(@, foc) ]
         IN  resetFocus(XUnmapWindow(s2, foc))
    ELSE s

\* the loop of the XK_n case over m_minimizedWindows from position i on
RECURSIVE restoreFrom(_, _)
restoreFrom(s, i) ==
    IF i > Len(s.m_minimizedWindows) THEN s
    ELSE LET w == s.m_minimizedWindows[i]
             s1 == XMapWindow(s, w)
             s2 == IF ~ Contains(s1.m_windowList, w)
                   THEN [ s1 EXCEPT !.m_windowList = Append(@, w) ]
                   ELSE s1
         IN  restoreFrom(s2, i + 1)

\* the XK_n case appending every minimized window without looking it up
restoreAllUnchecked(s) ==
    LET s1 == [ restoreFrom(s, 1)
                EXCEPT !.m_windowList = s.m_windowList \o s.m_minimizedWindows,
                       !.m_minimizedWindows = << >> ]
    IN  IF s1.m_windowList # << >>
        THEN focusWindow(s1, s1.m_windowList[Len(s1.m_windowList)])
        ELSE s1

\* the XK_n case of handleKeyPress
restoreAll(s) ==
    LET s1 == [ restoreFrom(s, 1) EXCEPT !.m_minimizedWindows = << >> ]
    IN  IF s1.m_windowList # << >>
        THEN focusWindow(s1, s1.m_windowList[Len(s1.m_windowList)])
        ELSE s1

\* what the XK_e case notes of itself before it acts
CloseApplied(foc) ==
    [ kind |-> "close", window |-> foc, message |-> FALSE, destroy |-> FALSE ]

\* the XK_e case sending the message and destroying the window as well
closeWindowSendsAndDestroys(s, foc, advertises) ==
    LET hasWMDelete == Exists(s, foc) /\ advertises
        s1 == IF hasWMDelete
              THEN [ s EXCEPT !.lastApplied = [ CloseApplied(foc) EXCEPT !.message = TRUE ] ]
              ELSE [ s EXCEPT !.lastApplied = CloseApplied(foc) ]
    IN  [ XDestroyWindow(s1, foc) EXCEPT !.lastApplied.destroy = TRUE ]

\* the XK_e case of handleKeyPress; advertises: the window exists and its
\* WM_PROTOCOLS lists WM_DELETE_WINDOW.  lastApplied notes the client
\* message sent and the destroy request issued.
closeWindow(s, foc, advertises) ==
    LET hasWMDelete == Exists(s, foc) /\ advertises
        s1 == IF hasWMDelete
              THEN [ s EXCEPT !.lastApplied = [ CloseApplied(foc) EXCEPT !.message = TRUE ] ]
              ELSE [ s EXCEPT !.lastApplied = CloseApplied(foc) ]
    IN  IF ~ hasWMDelete
        THEN [ XDestroyWindow(s1, foc) EXCEPT !.lastApplied.destroy = TRUE ]
        ELSE s1

\* whether a key press gets past the dialogs of handleKeyPress
NoDialogActive(s) ==
    /\ ~ s.m_isExitConfirmationActive
    /\ ~ s.m_isRunnerActive
    /\ ~ s.m_isHelpActive

\* the switch of handleKeyPress
handleChord(s, ks, foc, advertises) ==
    CASE ks = XK_f -> toggleFullscreen(s, foc)
      [] ks = XK_e -> closeWindow(s, foc, advertises)
      [] ks = XK_q -> createExitConfirmationDialog(s)
      [] ks = XK_r -> createRunnerDialog(s)
      [] ks = XK_i -> createHelpDialog(s)
      [] ks = XK_Tab -> focusNextWindow(s)
      [] ks = XK_m -> minimizeWindow(s, foc)
      [] ks = XK_n -> restoreAll(s)
      [] OTHER -> s

\* handleKeyPress with a Help dialog that swallows no key but Escape
handleKeyPressHelpPassThrough(s, code, state, advertises) ==
    LET ks == getKeysym(code, state)
    IN  IF s.m_isExitConfirmationActive THEN handleExitConfirmationKeypress(s, ks)
        ELSE IF s.m_isRunnerActive THEN handleRunnerInput(s, ks)
        ELSE IF s.m_isHelpActive /\ ks = XK_Escape THEN destroyHelpDialog(s)
        ELSE LET altPressed == "Mod1" \in state
                 foc == s.focus
             IN  IF ~ altPressed THEN s
                 ELSE handleChord(s, ks, foc, advertises)

\* handleKeyPress handing every key press to the chords, dialog or not
handleKeyPressUnrouted(s, code, state, advertises) ==
    LET ks == getKeysym(code, state)
        altPressed == "Mod1" \in state
        foc == s.focus
    IN  IF ~ altPressed THEN s
        ELSE handleChord(s, ks, foc, advertises)

\* handleKeyPress looking at Alt before it looks at the dialogs
handleKeyPressChordsFirst(s, code, state, advertises) ==
    LET ks == getKeysym(code, state)
        altPressed == "Mod1" \in state
        foc == s.focus
    IN  IF altPressed THEN handleChord(s, ks, foc, advertises)
        ELSE IF s.m_isExitConfirmationActive THEN handleExitConfirmationKeypress(s, ks)
        ELSE IF s.m_isRunnerActive THEN handleRunnerInput(s, ks)
        ELSE IF s.m_isHelpActive /\ ks = XK_Escape THEN destroyHelpDialog(s)
        ELSE s

handleKeyPress(s, code, state, advertises) ==
    LET ks == getKeysym(code, state)
    IN  IF s.m_isExitConfirmationActive THEN handleExitConfirmationKeypress(s, ks)
        ELSE IF s.m_isRunnerActive THEN handleRunnerInput(s, ks)
        ELSE IF s.m_isHelpActive
             THEN IF ks = XK_Escape THEN destroyHelpDialog(s) ELSE s
        ELSE LET altPressed == "Mod1" \in state
                 foc == s.focus
             IN  IF ~ altPressed THEN s
                 ELSE handleChord(s, ks, foc, advertises)

(***************************************************************************)
(* class WM: substructure events, pointer entry, client messages.          *)
(***************************************************************************)
\* handleMapRequest registering the window without looking it up first
handleMapRequestUnchecked(s, w, override) ==
    IF Exists(s, w) /\ override THEN XMapWindow(s, w)
    ELSE LET s1 == focusWindow(XMapWindow(s, w), w)
             l == Append(s1.m_windowList, w)
             s2 == [ s1 EXCEPT !.m_windowList = l,
                               !.m_currentWindowIndex = Len(l) - 1 ]
             s3 == IF Exists(s2, w)
                   THEN [ s2 EXCEPT !.enterMask = @ \cup {w} ]
                   ELSE s2
         IN  getWindowGeometryCached(s3, w)

\* override: the window exists and has override_redirect set
handleMapRequest(s, w, override) ==
    IF Exists(s, w) /\ override THEN XMapWindow(s, w)
    ELSE LET s1 == focusWindow(XMapWindow(s, w), w)
             s2 == IF ~ Contains(s1.m_windowList, w)
                   THEN LET l == Append(s1.m_windowList, w)
                        IN  [ s1 EXCEPT !.m_windowList = l,
                                        !.m_currentWindowIndex = Len(l) - 1 ]
                   ELSE s1
             s3 == IF Exists(s2, w)
                   THEN [ s2 EXCEPT !.enterMask = @ \cup {w} ]
                   ELSE s2
         IN  getWindowGeometryCached(s3, w)

handleDestroyNotify(s, w) ==
    LET it == Find(s.m_windowList, w)
        s1 == IF it # 0
              THEN LET l == EraseAt(s.m_windowList, it)
                   IN  [ s EXCEPT !.m_windowList = l,
                                  !.m_currentWindowIndex =
                                      IF @ >= Len(l) THEN 0 ELSE @ ]
              ELSE s
    IN  invalidateGeometryCache(s1, w)

handleEnterNotify(s, w) ==
    IF w # XCB_NONE /\ Contains(s.m_windowList, w)
    THEN focusWindow(s, w)
    ELSE s

\* a WM_PROTOCOLS message carrying WM_DELETE_WINDOW for window w
handleClientMessageDelete(s, w) == XDestroyWindow(s, w)

\* a _NET_ACTIVE_WINDOW message carrying w in data32[1]
handleClientMessageActive(s, w) == IF w # XCB_NONE THEN focusWindow(s, w) ELSE s


(***************************************************************************)
(* class WM: move/resize gestures.                                         *)
(***************************************************************************)
NoMove ==
    [ window |-> XCB_NONE, start_x |-> 0, start_y |-> 0, orig_x |-> 0, orig_y |-> 0 ]

NoResize ==
    [ window |-> XCB_NONE, start_x |-> 0, start_y |-> 0,
      start_width |-> 0, start_height |-> 0 ]

\* event: the window the press is reported to; child: the child of it under
\* the pointer
handleButtonPress(s, event, child, detail, state, root_x, root_y) ==
    IF \/ (s.m_isExitConfirmationActive /\ event = s.m_exitConfirmationWindow)
       \/ (s.m_isRunnerActive /\ event = s.m_runnerWindow)
       \/ (s.m_isHelpActive /\ event = s.m_helpWindow)
    THEN s
    ELSE IF "Mod1" \notin state THEN s
    ELSE IF child = XCB_NONE THEN s
    ELSE LET w == child
             geom == getWindowGeometry(s, w)
             s1 == getWindowGeometryCached(s, w)
         IN  IF detail = 1
             THEN [ s1 EXCEPT !.moveStart =
                        [ window |-> w, start_x |-> root_x, start_y |-> root_y,
                          orig_x |-> geom.x, orig_y |-> geom.y ] ]
             ELSE IF detail = 3
             THEN [ s1 EXCEPT !.resizeStart =
                        [ window |-> w, start_x |-> root_x, start_y |-> root_y,
                          start_width |-> geom.width,
                          start_height |-> geom.height ] ]
             ELSE s1

\* snapAxis without the test against 0
snapAxisFarOnly(new, size, screen) ==
    IF Abs((new + size) - screen) < SNAP_THRESHOLD THEN screen - size ELSE new

\* snapAxis without the test against the far edge of the screen
snapAxisNearOnly(new, size, screen) ==
    IF Abs(new) < SNAP_THRESHOLD THEN 0 ELSE new

\* the two snapping tests of handleMotionNotify on one axis
snapAxis(new, size, screen) ==
    LET n1 == IF Abs(new) < SNAP_THRESHOLD THEN 0 ELSE new
    IN  IF Abs((n1 + size) - screen) < SNAP_THRESHOLD THEN screen - size ELSE n1

\* conversion of an int to uint16_t
ToUint16(n) == n % 65536

handleMotionNotify(s, root_x, root_y) ==
    IF s.moveStart.window # XCB_NONE
    THEN LET w == s.moveStart.window
             dx == root_x - s.moveStart.start_x
             dy == root_y - s.moveStart.start_y
             rawX == s.moveStart.orig_x + dx
             rawY == s.moveStart.orig_y + dy
             winGeom == getWindowGeometry(s, w)
             s1 == getWindowGeometryCached(s, w)
             newX == snapAxis(rawX, winGeom.width, s.m_screenWidth)
             newY == snapAxis(rawY, winGeom.height, s.m_screenHeight)
             s2 == XConfigurePosition(s1, w, newX, newY)
         IN  [ invalidateGeometryCache(s2, w) EXCEPT !.lastApplied =
                 [ kind |-> "move", window |-> w,
                   rawX |-> rawX, rawY |-> rawY, x |-> newX, y |-> newY,
                   width |-> winGeom.width, height |-> winGeom.height ] ]
    ELSE IF s.resizeStart.window # XCB_NONE
    THEN LET w == s.resizeStart.window
             dx == root_x - s.resizeStart.start_x
             dy == root_y - s.resizeStart.start_y
             nw == ToUint16(Max(s.resizeStart.start_width + dx, MIN_SIZE))
             nh == ToUint16(Max(s.resizeStart.start_height + dy, MIN_SIZE))
             s1 == XConfigureSize(s, w, nw, nh)
         IN  [ invalidateGeometryCache(s1, w) EXCEPT !.lastApplied =
                 [ kind |-> "resize", window |-> w, width |-> nw, height |-> nh ] ]
    ELSE s

\* handleButtonRelease clearing the move slot only
handleButtonReleaseMoveOnly(s) ==
    [ s EXCEPT !.moveStart = NoMove ]

handleButtonRelease(s) ==
    [ s EXCEPT !.moveStart = NoMove, !.resizeStart = NoResize ]

\* handleConfigureRequest without the invalidation of the cache entry
handleConfigureRequestKeepsCache(s, w, mask, g) ==
    LET old == s.xgeom[w]
        new == [ x |-> IF "x" \in mask THEN g.x ELSE old.x,
                 y |-> IF "y" \in mask THEN g.y ELSE old.y,
                 width |-> IF "width" \in mask THEN g.width ELSE old.width,
                 height |-> IF "height" \in mask THEN g.height ELSE old.height ]
    IN  IF Exists(s, w) THEN XConfigureWindow(s, w, new) ELSE s

\* mask: the fields of the request the client set
handleConfigureRequest(s, w, mask, g) ==
    LET old == s.xgeom[w]
        new == [ x |-> IF "x" \in mask THEN g.x ELSE old.x,
                 y |-> IF "y" \in mask THEN g.y ELSE old.y,
                 width |-> IF "width" \in mask THEN g.width ELSE old.width,
                 height |-> IF "height" \in mask THEN g.height ELSE old.height ]
        s1 == IF Exists(s, w) THEN XConfigureWindow(s, w, new) ELSE s
    IN  invalidateGeometryCache(s1, w)


(***************************************************************************)
(* The initial state: the WM has initialised on a screen, the clients have *)
(* created their windows and mapped none.                                  *)
(***************************************************************************)
ClientGeometry == Geometry(100, 100, 200, 200)

InitWM(width, height, clients) ==
    /\ m_windowList = << >>
    /\ m_currentWindowIndex = 0
    /\ m_minimizedWindows = << >>
    /\ m_isRunnerActive = FALSE
    /\ m_runnerWindow = XCB_NONE
    /\ m_runnerInput = << >>
    /\ m_isExitConfirmationActive = FALSE
    /\ m_exitConfirmationWindow = XCB_NONE
    /\ m_isHelpActive = FALSE
    /\ m_helpWindow = XCB_NONE
    /\ m_geometryCache = << >>
    /\ m_originalGeometry = << >>
    /\ moveStart = NoMove
    /\ resizeStart = NoResize
    /\ m_screenWidth = width
    /\ m_screenHeight = height
    /\ running = TRUE
    /\ xstate = [ w \in Windows |->
                    IF w = Root THEN "mapped"
                    ELSE IF w \in clients THEN "unmapped" ELSE "none" ]
    /\ xgeom = [ w \in Windows |->
                    IF w = Root THEN Geometry(0, 0, width, height)
                    ELSE IF w \in clients THEN ClientGeometry
                    ELSE NoGeometry ]
    /\ netWmState = {}
    /\ enterMask = {}
    /\ focus = PointerRoot
    /\ events = << >>
    /\ presses = 0
    /\ examined = 0
    /\ lastApplied = NoApplied
    /\ launched = << >>

\* the WM with the Logger as the source builds it: DEBUG_LOGS not defined
InitOn(width, height, clients) ==
    /\ InitWM(width, height, clients)
    /\ logger = LoggerStart(FALSE)

RegistryClients == {3, 4}

Init == InitOn(1920, 1080, RegistryClients)

(***************************************************************************)
(* What the clients do to their own windows.                               *)
(***************************************************************************)
\* xcb_map_window by a client: redirected to the WM as a MapRequest
ClientMapWindow(w) ==
    /\ running
    /\ xstate[w] = "unmapped"
    /\ Len(events) < MaxEvents
    /\ \A i \in 1..Len(events) :
          ~ (events[i].type = "MapRequest" /\ events[i].window = w)
    /\ Becomes([ St EXCEPT !.events =
                     Append(@, [ type |-> "MapRequest", window |-> w ]) ])

ClientUnmapWindow(w) ==
    /\ running
    /\ xstate[w] = "mapped"
    /\ Becomes(XUnmapWindow(St, w))

ClientDestroyWindow(w) ==
    /\ running
    /\ Exists(St, w)
    /\ Len(events) < MaxEvents
    /\ Becomes(XDestroyWindow(St, w))

(***************************************************************************)
(* runEventLoop: one action per event kind.                                *)
(***************************************************************************)
Popped == [ St EXCEPT !.events = Tail(@) ]

MapRequest(override) ==
    /\ running
    /\ events # << >>
    /\ Head(events).type = "MapRequest"
    /\ override => Exists(St, Head(events).window)
    /\ Becomes(handleMapRequest(Popped, Head(events).window, override))

DestroyNotify ==
    /\ running
    /\ events # << >>
    /\ Head(events).type = "DestroyNotify"
    /\ Becomes(handleDestroyNotify(Popped, Head(events).window))

\* grabKeysAndButtons: the key combinations grabbed on the root
GrabbedKeys == { XK_f, XK_e, XK_q, XK_r, XK_Tab, XK_i, XK_m, XK_n }

GrabbedModifiers ==
    { {"Mod1"}, {"Mod1", "Lock"}, {"Mod1", "Mod2"}, {"Mod1", "Lock", "Mod2"} }

\* a key press reaches the WM through a grab, or through a dialog window
\* (created with KEY_PRESS selected) that has the focus or is under the
\* pointer while the focus is at the root
KeyDelivered(s, code, state) ==
    \/ code \in GrabbedKeys /\ state \in GrabbedModifiers
    \/ \E d \in DialogIds :
          Viewable(s, d) /\ s.focus \in {Root, PointerRoot, d}

WithinBounds(s, cap) ==
    /\ Len(s.events) <= MaxEvents
    /\ Len(s.m_minimizedWindows) <= MaxMinimized
    /\ Len(s.m_runnerInput) <= cap

\* whether the key press makes createPopUpWindow generate an identifier
CreatesDialog(s, code, state) ==
    /\ NoDialogActive(s)
    /\ "Mod1" \in state
    /\ getKeysym(code, state) \in {XK_q, XK_r, XK_i}

KeyPress(code, state, advertises, cap) ==
    /\ running
    /\ KeyDelivered(St, code, state)
    /\ CreatesDialog(St, code, state) => CanGenerateId(St)
    /\ WithinBounds(handleKeyPress(St, code, state, advertises), cap)
    /\ Becomes(handleKeyPress(St, code, state, advertises))

\* the pointer enters a viewable window on which ENTER_WINDOW is selected
\* (the root: selectInputOnRoot; a client window: handleMapRequest)
EnterNotify(w) ==
    /\ running
    /\ Viewable(St, w)
    /\ w = Root \/ w \in enterMask
    /\ Becomes(handleEnterNotify(St, w))

ClientMessageDelete(w) ==
    /\ running
    /\ Exists(St, w) => Len(events) < MaxEvents
    /\ Becomes(handleClientMessageDelete(St, w))

ClientMessageActive(w) ==
    /\ running
    /\ Becomes(handleClientMessageActive(St, w))

\* the top-level window the pointer is in at (px, py)
PointerIn(s, w, px, py) ==
    /\ Viewable(s, w)
    /\ s.xgeom[w].x <= px /\ px < s.xgeom[w].x + s.xgeom[w].width
    /\ s.xgeom[w].y <= py /\ py < s.xgeom[w].y + s.xgeom[w].height

\* a press of button 1 or 3 with Alt held, grabbed on the root, with the
\* pointer in the top-level window w: the press that activates the grab is
\* reported to the root with w as the child
ButtonPress(w, detail, px, py) ==
    /\ running
    /\ PointerIn(St, w, px, py)
    /\ presses < MaxPresses
    /\ Becomes([ handleButtonPress(St, Root, w, detail, {"Mod1"}, px, py)
                 EXCEPT !.presses = @ + 1 ])

MotionNotify(px, py) ==
    /\ running
    /\ Becomes(handleMotionNotify(St, px, py))

ButtonRelease ==
    /\ running
    /\ Becomes(handleButtonRelease(St))

\* a client asks for another size of its window
ConfigureRequest(w, width, height) ==
    /\ running
    /\ Exists(St, w)
    /\ Becomes(handleConfigureRequest(St, w, {"width", "height"},
                                      Geometry(0, 0, width, height)))

(***************************************************************************)
(* Spec: the window registry, the dialogs and the focus.                   *)
(***************************************************************************)
\* the minimize chord is pressed while a client's window has the focus
MinimizesClient(code) == (code = XK_m /\ NoDialogActive(St)) => focus \in Clients

\* the keys pressed: every chord but the Runner's and fullscreen
RegistryKeys ==
    { << k, {"Mod1"} >> : k \in { XK_e, XK_q, XK_i, XK_Tab, XK_m, XK_n } }
    \cup { << XK_Escape, {} >>, << XK_y, {} >> }

Next ==
    \/ \E w \in Clients : ClientMapWindow(w)
    \/ \E w \in Clients : ClientUnmapWindow(w)
    \/ \E w \in Clients : ClientDestroyWindow(w)
    \/ \E o \in BOOLEAN : MapRequest(o)
    \/ DestroyNotify
    \/ \E k \in RegistryKeys, a \in BOOLEAN :
          /\ MinimizesClient(k[1])
          /\ KeyPress(k[1], k[2], a, MaxInput)
    \/ \E w \in Windows : EnterNotify(w)

Spec == Init /\ [][Next]_vars


(***************************************************************************)
(* SpecCycle: three clients, focus cycling and minimizing, no dialogs.     *)
(***************************************************************************)
CycleClients == {3, 4, 5}

InitCycle == InitOn(1920, 1080, CycleClients)

CycleKeys == { << XK_Tab, {"Mod1"} >>, << XK_m, {"Mod1"} >> }

NextCycle ==
    \/ \E w \in Clients : ClientMapWindow(w)
    \/ \E w \in Clients : ClientUnmapWindow(w)
    \/ \E w \in Clients : ClientDestroyWindow(w)
    \/ \E o \in BOOLEAN : MapRequest(o)
    \/ DestroyNotify
    \/ \E k \in CycleKeys :
          /\ MinimizesClient(k[1])
          /\ KeyPress(k[1], k[2], FALSE, MaxInput)
    \/ \E w \in Windows : EnterNotify(w)

SpecCycle == InitCycle /\ [][NextCycle]_vars

(***************************************************************************)
(* SpecDialog: one client and the three dialogs with their keys.           *)
(***************************************************************************)
DialogClients == {3}

InitDialog == InitOn(1920, 1080, DialogClients)

\* the chords that ask for a dialog
CreateChords == { XK_q, XK_r, XK_i }

DialogKeys ==
    { << k, {"Mod1"} >> : k \in CreateChords }
    \cup { << k, {} >> : k \in { XK_Escape, XK_Return, XK_BackSpace, XK_y, XK_n } }
    \cup { << XK_y, {"Shift"} >> }

NextDialog ==
    \/ \E w \in DialogClients : ClientMapWindow(w)
    \/ \E w \in DialogClients : ClientUnmapWindow(w)
    \/ \E w \in DialogClients : ClientDestroyWindow(w)
    \/ \E o \in BOOLEAN : MapRequest(o)
    \/ DestroyNotify
    \/ \E k \in DialogKeys : KeyPress(k[1], k[2], FALSE, MaxInput)
    \/ \E w \in Windows : EnterNotify(w)

SpecDialog == InitDialog /\ [][NextDialog]_vars

(***************************************************************************)
(* SpecGesture: one client window dragged and resized with the pointer on  *)
(* a 1920x1080 screen.                                                     *)
(***************************************************************************)
GestureClients == {3}

InitGesture == InitOn(1920, 1080, GestureClients)

\* where the pointer is when an event reports it
PointerXs == {150, 58, 62, 1765}

PointerYs == {150, 58}

\* the sizes the client changes its window to: 15 short of the screen's
\* width, 5 short of its width and of its height
GestureSizes == { << 1905, 200 >>, << 1915, 1075 >> }

NextGesture ==
    \/ \E w \in GestureClients : ClientMapWindow(w)
    \/ \E o \in BOOLEAN : MapRequest(o)
    \/ \E w \in GestureClients, sz \in GestureSizes :
          ConfigureRequest(w, sz[1], sz[2])
    \/ \E w \in GestureClients, d \in {1, 3}, px \in PointerXs, py \in PointerYs :
          ButtonPress(w, d, px, py)
    \/ \E px \in PointerXs, py \in PointerYs : MotionNotify(px, py)
    \/ ButtonRelease

SpecGesture == InitGesture /\ [][NextGesture]_vars

(***************************************************************************)
(* SpecFullscreen: two clients whose windows are made fullscreen, resized  *)
(* by their clients, closed and destroyed.                                 *)
(***************************************************************************)
FullscreenClients == {3, 4}

InitFullscreen == InitOn(1920, 1080, FullscreenClients)

FullscreenKeys == { << XK_f, {"Mod1"} >>, << XK_e, {"Mod1"} >> }

\* the size a client changes its window to
FullscreenSizes == { << 640, 480 >> }

NextFullscreen ==
    \/ \E w \in FullscreenClients : ClientMapWindow(w)
    \/ \E w \in FullscreenClients : ClientUnmapWindow(w)
    \/ \E w \in FullscreenClients : ClientDestroyWindow(w)
    \/ \E o \in BOOLEAN : MapRequest(o)
    \/ DestroyNotify
    \/ \E w \in FullscreenClients, sz \in FullscreenSizes :
          ConfigureRequest(w, sz[1], sz[2])
    \/ \E k \in FullscreenKeys : KeyPress(k[1], k[2], FALSE, MaxInput)
    \/ \E w \in Windows : EnterNotify(w)

SpecFullscreen == InitFullscreen /\ [][NextFullscreen]_vars

(***************************************************************************)
(* SpecMinimize: two clients, the minimize and restore chords.             *)
(***************************************************************************)
\* what a key press was: its keysym, whether it got past the dialogs to the
\* chords, and the focus, minimized list and Runner input it found
KeyApplied(s, code, state) ==
    [ kind |-> "key",
      keysym |-> getKeysym(code, state),
      chord |-> NoDialogActive(s) /\ "Mod1" \in state,
      foc |-> s.focus,
      minimized |-> s.m_minimizedWindows,
      input |-> s.m_runnerInput ]

\* KeyPress, with the key press itself kept in lastApplied
KeyPressNoted(code, state, advertises, cap) ==
    /\ running
    /\ KeyDelivered(St, code, state)
    /\ CreatesDialog(St, code, state) => CanGenerateId(St)
    /\ WithinBounds(handleKeyPress(St, code, state, advertises), cap)
    /\ Becomes([ handleKeyPress(St, code, state, advertises)
                 EXCEPT !.lastApplied = KeyApplied(St, code, state) ])

MinimizeClients == {3, 4}

InitMinimize == InitOn(1920, 1080, MinimizeClients)

MinimizeKeys == { << XK_m, {"Mod1"} >>, << XK_n, {"Mod1"} >> }

NextMinimize ==
    \/ \E w \in MinimizeClients : ClientMapWindow(w)
    \/ \E w \in MinimizeClients : ClientUnmapWindow(w)
    \/ \E w \in MinimizeClients : ClientDestroyWindow(w)
    \/ \E o \in BOOLEAN : MapRequest(o)
    \/ DestroyNotify
    \/ \E k \in MinimizeKeys : KeyPressNoted(k[1], k[2], FALSE, MaxInput)
    \/ \E w \in Windows : EnterNotify(w)

SpecMinimize == InitMinimize /\ [][NextMinimize]_vars

(***************************************************************************)
(* SpecModal: one client, every chord, and the keys the dialogs read.      *)
(***************************************************************************)
ModalClients == {3}

InitModal == InitOn(1920, 1080, ModalClients)

\* every grabbed chord; Escape, Return, BackSpace and y alone
ModalKeys ==
    { << k, {"Mod1"} >> : k \in GrabbedKeys }
    \cup { << k, {} >> : k \in { XK_Escape, XK_Return, XK_BackSpace, XK_y } }

\* with no dialog active only the chords that create one are pressed here
\* (the other chords without a dialog: Spec, SpecCycle, SpecFullscreen,
\* SpecMinimize)
ForDialog(code) == NoDialogActive(St) => code \in CreateChords

NextModal ==
    \/ \E w \in ModalClients : ClientMapWindow(w)
    \/ \E w \in ModalClients : ClientDestroyWindow(w)
    \/ \E o \in BOOLEAN : MapRequest(o)
    \/ DestroyNotify
    \/ \E k \in ModalKeys :
          /\ ForDialog(k[1])
          /\ KeyPress(k[1], k[2], FALSE, MaxInput)
    \/ \E w \in Windows : EnterNotify(w)

SpecModal == InitModal /\ [][NextModal]_vars

(***************************************************************************)
(* SpecExit: one client and the Exit Confirmation dialog.                  *)
(***************************************************************************)
ExitClients == {3}

InitExit == InitOn(1920, 1080, ExitClients)

\* the exit chord; y, n, Escape and BackSpace alone; Shift+y and Shift+n
ExitKeys ==
    { << XK_q, {"Mod1"} >>, << XK_y, {"Shift"} >>, << XK_n, {"Shift"} >> }
    \cup { << k, {} >> : k \in { XK_y, XK_n, XK_Escape, XK_BackSpace } }

NextExit ==
    \/ \E w \in ExitClients : ClientMapWindow(w)
    \/ \E w \in ExitClients : ClientUnmapWindow(w)
    \/ \E w \in ExitClients : ClientDestroyWindow(w)
    \/ \E o \in BOOLEAN : MapRequest(o)
    \/ DestroyNotify
    \/ \E k \in ExitKeys : KeyPressNoted(k[1], k[2], FALSE, MaxInput)
    \/ \E w \in Windows : EnterNotify(w)

SpecExit == InitExit /\ [][NextExit]_vars

(***************************************************************************)
(* SpecPress: one client, the dialogs, and button presses on any window.   *)
(***************************************************************************)
\* a press of a button without Alt in the dialog window w, reported to w
\* itself (createPopUpWindow selects BUTTON_PRESS on it)
ButtonPressOn(w, detail, px, py) ==
    /\ running
    /\ w \in DialogIds
    /\ PointerIn(St, w, px, py)
    /\ presses < MaxPresses
    /\ Becomes([ handleButtonPress(St, w, XCB_NONE, detail, {}, px, py)
                 EXCEPT !.presses = @ + 1 ])

PressClients == {3}

InitPress == InitOn(1920, 1080, PressClients)

\* the chords that open a dialog, and Escape
PressKeys == { << k, {"Mod1"} >> : k \in CreateChords } \cup { << XK_Escape, {} >> }

\* the pointer inside the client's window, and inside every dialog's
PressPoints == { << 150, 150 >>, << 900, 530 >> }

NextPress ==
    \/ \E w \in PressClients : ClientMapWindow(w)
    \/ \E o \in BOOLEAN : MapRequest(o)
    \/ DestroyNotify
    \/ \E k \in PressKeys : KeyPress(k[1], k[2], FALSE, MaxInput)
    \/ \E w \in Windows \ {Root}, d \in {1, 3}, p \in PressPoints :
          ButtonPress(w, d, p[1], p[2])
    \/ \E w \in DialogIds, d \in {1, 3}, p \in PressPoints :
          ButtonPressOn(w, d, p[1], p[2])
    \/ \E p \in PressPoints : MotionNotify(p[1], p[2])
    \/ ButtonRelease

SpecPress == InitPress /\ [][NextPress]_vars

(***************************************************************************)
(* SpecLifecycle: one client, the Help dialog, and presses, motion and     *)
(* releases of the pointer's buttons.                                      *)
(***************************************************************************)
LifecycleClients == {3}

InitLifecycle == InitOn(1920, 1080, LifecycleClients)

\* the chord that opens the Help dialog, and Escape
LifecycleKeys == { << XK_i, {"Mod1"} >>, << XK_Escape, {} >> }

NextLifecycle ==
    \/ \E w \in LifecycleClients : ClientMapWindow(w)
    \/ \E o \in BOOLEAN : MapRequest(o)
    \/ DestroyNotify
    \/ \E k \in LifecycleKeys : KeyPress(k[1], k[2], FALSE, MaxInput)
    \/ \E w \in Windows \ {Root}, d \in {1, 3}, p \in PressPoints :
          ButtonPress(w, d, p[1], p[2])
    \/ \E w \in DialogIds, d \in {1, 3}, p \in PressPoints :
          ButtonPressOn(w, d, p[1], p[2])
    \/ \E p \in PressPoints : MotionNotify(p[1], p[2])
    \/ ButtonRelease

SpecLifecycle == InitLifecycle /\ [][NextLifecycle]_vars

(***************************************************************************)
(* SpecClose: two clients, and the close chord on whatever has the focus.  *)
(* The clients do not destroy their windows themselves.                    *)
(***************************************************************************)
CloseClients == {3, 4}

InitClose == InitOn(1920, 1080, CloseClients)

NextClose ==
    \/ \E w \in CloseClients : ClientMapWindow(w)
    \/ \E w \in CloseClients : ClientUnmapWindow(w)
    \/ \E o \in BOOLEAN : MapRequest(o)
    \/ DestroyNotify
    \/ \E advertises \in BOOLEAN : KeyPress(XK_e, {"Mod1"}, advertises, MaxInput)
    \/ \E w \in Windows : EnterNotify(w)

SpecClose == InitClose /\ [][NextClose]_vars

(***************************************************************************)
(* SpecMessage: one client, the Help and Runner dialogs, and client        *)
(* messages that name any window.                                          *)
(***************************************************************************)
MessageClients == {3}

InitMessage == InitOn(1920, 1080, MessageClients)

\* the chords that open the Help and the Runner dialog, and Escape
MessageKeys == { << XK_i, {"Mod1"} >>, << XK_r, {"Mod1"} >>, << XK_Escape, {} >> }

NextMessage ==
    \/ \E w \in MessageClients : ClientMapWindow(w)
    \/ \E o \in BOOLEAN : MapRequest(o)
    \/ DestroyNotify
    \/ \E k \in MessageKeys : KeyPress(k[1], k[2], FALSE, MaxInput)
    \/ \E w \in Windows \ {Root} : ClientMessageDelete(w)
    \/ \E w \in Windows \ {Root} : ClientMessageActive(w)

SpecMessage == InitMessage /\ [][NextMessage]_vars

(***************************************************************************)
(* SpecCache: one client, and every way the WM changes the geometry of a   *)
(* window: moves, resizes, fullscreen toggles and configure requests.      *)
(***************************************************************************)
CacheClients == {3}

InitCache == InitOn(1920, 1080, CacheClients)

\* the size the client changes its window to
CacheSizes == { << 640, 480 >> }

\* where the pointer is when an event reports it
CachePoints == { << 150, 150 >>, << 170, 160 >> }

NextCache ==
    \/ \E w \in CacheClients : ClientMapWindow(w)
    \/ \E w \in CacheClients : ClientDestroyWindow(w)
    \/ \E o \in BOOLEAN : MapRequest(o)
    \/ DestroyNotify
    \/ \E w \in CacheClients, sz \in CacheSizes : ConfigureRequest(w, sz[1], sz[2])
    \/ KeyPress(XK_f, {"Mod1"}, FALSE, MaxInput)
    \/ \E w \in CacheClients, d \in {1, 3}, p \in CachePoints :
          ButtonPress(w, d, p[1], p[2])
    \/ \E p \in CachePoints : MotionNotify(p[1], p[2])
    \/ ButtonRelease

SpecCache == InitCache /\ [][NextCache]_vars

(***************************************************************************)
(* SpecResize: one client whose window is as wide or as high as 16 bits    *)
(* allow, and resize gestures on it.                                       *)
(***************************************************************************)
ResizeClients == {3}

InitResize == InitOn(1920, 1080, ResizeClients)

\* the sizes the client gives its window
ResizeSizes == { << 65530, 200 >>, << 200, 65500 >>, << 120, 120 >> }

\* where the pointer is when an event reports it
ResizePoints == { << 150, 150 >>, << 160, 190 >>, << 110, 110 >> }

NextResize ==
    \/ \E w \in ResizeClients : ClientMapWindow(w)
    \/ \E o \in BOOLEAN : MapRequest(o)
    \/ \E w \in ResizeClients, sz \in ResizeSizes :
          ConfigureRequest(w, sz[1], sz[2])
    \/ \E w \in ResizeClients, p \in ResizePoints : ButtonPress(w, 3, p[1], p[2])
    \/ \E p \in ResizePoints : MotionNotify(p[1], p[2])
    \/ ButtonRelease

SpecResize == InitResize /\ [][NextResize]_vars

(***************************************************************************)
(* SpecLogger: the Logger alone, in both builds (DEBUG_LOGS defined or     *)
(* not): up to MaxLogged calls of log(), then the destructor.              *)
(***************************************************************************)
InitLogger ==
    /\ InitWM(1920, 1080, {})
    /\ logger \in { LoggerStart(b) : b \in BOOLEAN }

LoggerBecomes(l) == Becomes([ St EXCEPT !.logger = l ])

\* the dispatch thread calls log(); the message is the number of the call
Log ==
    /\ logger.main = "run"
    /\ logger.logged < MaxLogged
    /\ logger.DEBUG_LOGS => logger.m_mutex = "free"
    /\ LoggerBecomes(logEnter(logger))

LogPush ==
    /\ logger.main = "log_push"
    /\ LoggerBecomes(logPush(logger, logger.logged))

LogLeave ==
    /\ logger.main = "log_unlock"
    /\ LoggerBecomes(logLeave(logger))

\* main returns: the Logger is destroyed
DestructorEnter ==
    /\ logger.main = "run"
    /\ logger.m_mutex = "free"
    /\ LoggerBecomes(destructorEnter(logger))

DestructorClear ==
    /\ logger.main = "dtor_set"
    /\ LoggerBecomes(destructorClear(logger))

DestructorNotify ==
    /\ logger.main = "dtor_notify"
    /\ LoggerBecomes(destructorNotify(logger))

DestructorJoin ==
    /\ logger.main = "dtor_join"
    /\ logger.worker = "done"
    /\ LoggerBecomes(destructorJoin(logger))

MainThread ==
    \/ Log \/ LogPush \/ LogLeave
    \/ DestructorEnter \/ DestructorClear \/ DestructorNotify \/ DestructorJoin

\* the worker thread runs unless it is blocked in m_cv.wait, waits for
\* m_mutex, or has ended
WorkerThread ==
    /\ logger.worker \notin {"blocked", "done"}
    /\ logger.worker \in {"lock", "woken"} => logger.m_mutex = "free"
    /\ \E opens \in BOOLEAN : LoggerBecomes(logWorker(logger, opens))

\* a condition variable may wake its waiter without a notification
SpuriousWakeup ==
    /\ logger.worker = "blocked"
    /\ LoggerBecomes([ logger EXCEPT !.worker = "woken" ])

NextLogger == MainThread \/ WorkerThread \/ SpuriousWakeup

SpecLogger == InitLogger /\ [][NextLogger]_vars

\* both threads are scheduled fairly; a spurious wakeup need never happen
SpecLoggerFair ==
    /\ InitLogger /\ [][NextLogger]_vars
    /\ WF_vars(MainThread)
    /\ WF_vars(WorkerThread)

(***************************************************************************)
(* The dialogs.                                                            *)
(***************************************************************************)
ActiveDialogs ==
    { d \in {"Runner", "ExitConfirmation", "Help"} :
        \/ d = "Runner" /\ m_isRunnerActive
        \/ d = "ExitConfirmation" /\ m_isExitConfirmationActive
        \/ d = "Help" /\ m_isHelpActive }

\* C1: whatever the sequence of dialog create requests and dismissals, at
\* most one of the Runner, the exit confirmation and the Help dialog is
\* active.
C1_DialogExclusivity == Cardinality(ActiveDialogs) <= 1

\* the Help chord was pressed while the Runner was active, and the Runner is
\* still the only dialog
C1_Witness ==
    /\ ActiveDialogs = {"Runner"}
    /\ m_runnerInput # << >>
    /\ m_runnerInput[Len(m_runnerInput)] = XK_i

\* a create chord is pressed while a dialog is active
ChordWhileActive(k) ==
    /\ ~ NoDialogActive(St)
    /\ KeyPress(k, {"Mod1"}, FALSE, MaxInput)

\* what C2 lists apart from the Runner input buffer: the dialog kind, its
\* window, the active sequence, the current index, the focus, the windows
DialogFrameUnchanged ==
    /\ ActiveDialogs' = ActiveDialogs
    /\ m_runnerWindow' = m_runnerWindow
    /\ m_exitConfirmationWindow' = m_exitConfirmationWindow
    /\ m_helpWindow' = m_helpWindow
    /\ m_windowList' = m_windowList
    /\ m_currentWindowIndex' = m_currentWindowIndex
    /\ focus' = focus
    /\ xstate' = xstate

C3_RegistryUnique ==
    \A i, j \in 1..Len(m_windowList) :
        i # j => m_windowList[i] # m_windowList[j]

\* a minimized window asked to be mapped again and was registered once more,
\* next to another window
C3_Witness ==
    /\ Len(m_windowList) >= 2
    /\ \E w \in Clients :
          Contains(m_windowList, w) /\ Contains(m_minimizedWindows, w)

\* C4: the active sequence and the minimized set are disjoint.
C4_ActiveMinimizedDisjoint ==
    Range(m_windowList) \cap Range(m_minimizedWindows) = {}

\* C5: the current index is a valid position of the active sequence, or the
\* active sequence is empty.
C5_CurrentIndexValid ==
    \/ m_windowList = << >>
    \/ (0 <= m_currentWindowIndex /\ m_currentWindowIndex < Len(m_windowList))

(***************************************************************************)
(* Focus cycling.                                                          *)
(***************************************************************************)
\* the Alt+Tab chord handled with no dialog open: focusNextWindow runs
TabStep ==
    /\ NoDialogActive(St)
    /\ KeyPress(XK_Tab, {"Mod1"}, FALSE, MaxInput)

\* the positions (from 0) of the viewable windows of the active sequence
ViewablePositions ==
    { p \in 0..(Len(m_windowList) - 1) : Viewable(St, m_windowList[p + 1]) }

\* how many steps after the current index position p comes, cyclically
\* (the current index itself comes last)
CyclicDistance(p) ==
    ((p - m_currentWindowIndex - 1) % Len(m_windowList)) + 1

\* the position focusNext is to choose
NextViewable ==
    CHOOSE p \in ViewablePositions :
        \A q \in ViewablePositions : CyclicDistance(p) <= CyclicDistance(q)

\* C6: focusNext() on an active sequence of N windows none of which is
\* viewable examines at most N candidates, focuses nothing and leaves the
\* active sequence and the current index unchanged.
C6_FocusCycleNoViewable ==
    [][ (TabStep /\ m_windowList # << >> /\ ViewablePositions = {}) =>
          /\ examined' <= Len(m_windowList)
          /\ focus' = focus
          /\ m_windowList' = m_windowList
          /\ m_currentWindowIndex' = m_currentWindowIndex ]_vars

\* C7: focusNext() focuses the first viewable window found scanning the
\* active sequence cyclically from one position after the current index,
\* sets the current index to its position and touches no other window.
C7_FocusNextFirstViewable ==
    [][ (TabStep /\ ViewablePositions # {}) =>
          /\ m_currentWindowIndex' = NextViewable
          /\ focus' = m_windowList[NextViewable + 1]
          /\ examined' = CyclicDistance(NextViewable)
          /\ m_windowList' = m_windowList
          /\ xstate' = xstate ]_vars

\* focusNext has just skipped a window that is not viewable and focused the
\* next one of three
C7_Witness ==
    /\ Len(m_windowList) = 3
    /\ examined = 2
    /\ focus = m_windowList[m_currentWindowIndex + 1]

(***************************************************************************)
(* Move and resize gestures.                                               *)
(***************************************************************************)
\* C8: at most one of the move slot and the resize slot holds a window: a
\* press for one operation is not taken while the other is pending.
C8_GestureExclusive ==
    moveStart.window = XCB_NONE \/ resizeStart.window = XCB_NONE

\* a raw position strictly within the threshold of 0
NearZone(raw) == Abs(raw) < SNAP_THRESHOLD

\* a raw position that puts the window's far edge strictly within the
\* threshold of the screen's far edge
FarZone(raw, size, screen) == Abs((raw + size) - screen) < SNAP_THRESHOLD

\* two motion events of a move follow each other, the window and its size
\* being the same
ConsecutiveMoves ==
    /\ lastApplied.kind = "move"
    /\ lastApplied'.kind = "move"
    /\ lastApplied'.window = lastApplied.window
    /\ lastApplied'.width = lastApplied.width
    /\ lastApplied'.height = lastApplied.height

\* on one axis: raw positions r1 then r2 within the threshold of the same
\* edge get the same applied position, 0 or screen - size
PinnedAtEdge(r1, a1, r2, a2, size, screen) ==
    (\/ NearZone(r1) /\ NearZone(r2)
     \/ FarZone(r1, size, screen) /\ FarZone(r2, size, screen))
    => (a2 = a1 /\ a2 \in {0, screen - size})

\* on one axis: the same for the edge at 0; for the far edge only while
\* the raw position is not within the threshold of 0 as well
PinnedAtOneEdge(r1, a1, r2, a2, size, screen) ==
    /\ (NearZone(r1) /\ NearZone(r2))
          => (a2 = a1 /\ a2 \in {0, screen - size})
    /\ (/\ FarZone(r1, size, screen) /\ ~ NearZone(r1)
        /\ FarZone(r2, size, screen) /\ ~ NearZone(r2))
          => (a2 = a1 /\ a2 = screen - size)

\* C9 as stated: during a move, once the raw position on an axis is within
\* 10 pixels of an edge, every further motion event whose raw position
\* stays within that threshold applies the same pinned position, which is 0
\* or screen dimension - window dimension.
C9_SnapIdempotence ==
    [][ ConsecutiveMoves =>
          /\ PinnedAtEdge(lastApplied.rawX, lastApplied.x,
                          lastApplied'.rawX, lastApplied'.x,
                          lastApplied.width, m_screenWidth)
          /\ PinnedAtEdge(lastApplied.rawY, lastApplied.y,
                          lastApplied'.rawY, lastApplied'.y,
                          lastApplied.height, m_screenHeight) ]_vars

\* C9 (as the code has it): during a move of a window whose size does not
\* change, motion events whose raw position stays within 10 pixels of 0
\* apply one pinned position, 0 or screen dimension - window dimension;
\* motion events whose raw position stays within 10 pixels of the far edge
\* and not within 10 pixels of 0 apply screen dimension - window dimension.
C9_SnapPinnedAtOneEdge ==
    [][ ConsecutiveMoves =>
          /\ PinnedAtOneEdge(lastApplied.rawX, lastApplied.x,
                             lastApplied'.rawX, lastApplied'.x,
                             lastApplied.width, m_screenWidth)
          /\ PinnedAtOneEdge(lastApplied.rawY, lastApplied.y,
                             lastApplied'.rawY, lastApplied'.y,
                             lastApplied.height, m_screenHeight) ]_vars

\* a window 15 pixels narrower than the screen is dragged to a raw X that
\* is within the threshold of the far edge and not of 0, and is pinned there
C9_Witness ==
    /\ lastApplied.kind = "move"
    /\ m_screenWidth - lastApplied.width = 15
    /\ FarZone(lastApplied.rawX, lastApplied.width, m_screenWidth)
    /\ ~ NearZone(lastApplied.rawX)
    /\ lastApplied.rawX # lastApplied.x
    /\ lastApplied.x = 15
    /\ xgeom[lastApplied.window].x = 15

\* C10 as stated: during a move, for every window size and screen size, a
\* raw X within the snap threshold of 0 is applied as exactly 0, and
\* likewise a raw Y.
C10_SnapToZero ==
    lastApplied.kind = "move" =>
        /\ NearZone(lastApplied.rawX) => lastApplied.x = 0
        /\ NearZone(lastApplied.rawY) => lastApplied.y = 0

\* what a raw position within the threshold of 0 is applied as
SnappedNear(size, screen) ==
    IF Abs(size - screen) < SNAP_THRESHOLD THEN screen - size ELSE 0

\* C10 (as the code has it): during a move, a raw X within the snap
\* threshold of 0 is applied as 0, unless the window's width is within the
\* threshold of the screen's width: then it is applied as screen width -
\* window width.  Likewise a raw Y, independently.
C10_SnapToZeroOrFarEdge ==
    lastApplied.kind = "move" =>
        /\ NearZone(lastApplied.rawX) =>
              lastApplied.x = SnappedNear(lastApplied.width, m_screenWidth)
        /\ NearZone(lastApplied.rawY) =>
              lastApplied.y = SnappedNear(lastApplied.height, m_screenHeight)

\* a window 5 pixels narrower than the screen is dragged to raw X 8 and is
\* put at 5
C10_Witness ==
    /\ lastApplied.kind = "move"
    /\ lastApplied.rawX = 8
    /\ lastApplied.width = 1915
    /\ lastApplied.x = 5
    /\ xgeom[lastApplied.window].x = 5

(***************************************************************************)
(* Fullscreen.                                                             *)
(***************************************************************************)
\* a toggleFullscreen that made a window fullscreen is followed at once by
\* a toggleFullscreen of the same window, the window existing all along
ToggleThenToggle ==
    /\ lastApplied.kind = "fullscreen"
    /\ lastApplied.entered
    /\ lastApplied'.kind = "fullscreen"
    /\ lastApplied'.window = lastApplied.window
    /\ Exists(St, lastApplied.window)

DestroyPending(w) ==
    \E i \in 1..Len(events) :
        events[i].type = "DestroyNotify" /\ events[i].window = w

\* C12: a saved geometry (m_originalGeometry) exists only for a window that
\* carries the fullscreen marker: none persists once the window has left
\* fullscreen or has been destroyed (and its DestroyNotify handled).
C12_SavedGeometryOnlyFullscreen ==
    \A w \in DOMAIN m_originalGeometry \cap Windows :
        w \in netWmState \/ DestroyPending(w)

(***************************************************************************)
(* Minimize and restore.                                                   *)
(***************************************************************************)
\* how often w occurs in q
Count(q, w) == Cardinality({ i \in 1..Len(q) : q[i] = w })

\* the step is Alt+M handled with a window in foc that is no dialog's
MinimizeStep ==
    /\ lastApplied'.kind = "key" /\ lastApplied'.chord
    /\ lastApplied'.keysym = XK_m
    /\ lastApplied'.foc \notin { XCB_NONE, m_runnerWindow,
                                 m_exitConfirmationWindow, m_helpWindow }

\* the step is Alt+N handled
RestoreStep ==
    /\ lastApplied'.kind = "key" /\ lastApplied'.chord
    /\ lastApplied'.keysym = XK_n

\* the state is the one an Alt+N left
Restored ==
    /\ lastApplied.kind = "key" /\ lastApplied.chord
    /\ lastApplied.keysym = XK_n

\* C13: minimizing a window takes it out of the active sequence and appends
\* it to the minimized set; restore-all leaves every minimized window in the
\* active sequence exactly once, keeps the windows that were active, and
\* empties the minimized set; a restore-all right after a restore-all leaves
\* the active sequence as it is.
C13_MinimizeRestoreRoundTrip ==
    [][ /\ MinimizeStep =>
              /\ ~ Contains(m_windowList', lastApplied'.foc)
              /\ m_minimizedWindows' = Append(m_minimizedWindows, lastApplied'.foc)
        /\ RestoreStep =>
              /\ \A w \in Range(m_minimizedWindows) : Count(m_windowList', w) = 1
              /\ \A w \in Range(m_windowList) : Count(m_windowList', w) = 1
              /\ Range(m_windowList') = Range(m_windowList) \cup Range(m_minimizedWindows)
              /\ m_minimizedWindows' = << >>
        /\ (Restored /\ RestoreStep) => m_windowList' = m_windowList ]_vars

\* an Alt+N has put two minimized windows back
C13_Witness ==
    /\ Restored
    /\ Len(lastApplied.minimized) = 2
    /\ lastApplied.minimized[1] # lastApplied.minimized[2]
    /\ Range(m_windowList) = Range(lastApplied.minimized)
    /\ m_minimizedWindows = << >>

(***************************************************************************)
(* Key presses while a dialog is active.                                   *)
(***************************************************************************)
\* a key press of ModalKeys handled while a dialog is active
KeyWhileActive(k) ==
    /\ ~ NoDialogActive(St)
    /\ KeyPress(k[1], k[2], FALSE, MaxInput)

\* the window of the active dialog
ActiveDialogWindow ==
    IF m_isExitConfirmationActive THEN m_exitConfirmationWindow
    ELSE IF m_isRunnerActive THEN m_runnerWindow
    ELSE m_helpWindow

\* the step leaves the fullscreen state, the minimized set, the clients'
\* windows and the gestures alone
ClientsUntouched ==
    /\ m_minimizedWindows' = m_minimizedWindows
    /\ m_originalGeometry' = m_originalGeometry
    /\ netWmState' = netWmState
    /\ m_geometryCache' = m_geometryCache
    /\ moveStart' = moveStart /\ resizeStart' = resizeStart
    /\ \A w \in Clients :
          /\ xgeom'[w] = xgeom[w]
          /\ xstate'[w] = "none" <=> xstate[w] = "none"
    /\ \A i \in 1..Len(events') :
          i > Len(events) => events'[i].window = ActiveDialogWindow

\* the step destroys the active dialog: its window is gone from the server
\* and from the active sequence, which keeps its other windows in order
OwnDestruction ==
    /\ ActiveDialogs' = {}
    /\ xstate'[ActiveDialogWindow] = "none"
    /\ m_windowList' = SelectSeq(m_windowList, LAMBDA w : w # ActiveDialogWindow)
    /\ m_runnerInput' = << >>

\* C14: a key press handled while a dialog is active leaves the fullscreen
\* state, the minimized set and the clients' windows alone, opens no dialog
\* and does not cycle the focus: either the dialog stays, and then nothing
\* but the Runner input buffer changes, or the dialog itself is destroyed
\* (taken out of the active sequence, focus reset).
C14_KeysOnlyReachDialog ==
    [][ \A k \in ModalKeys : KeyWhileActive(k) =>
          /\ ClientsUntouched
          /\ \/ /\ DialogFrameUnchanged
                /\ events' = events
                /\ enterMask' = enterMask
                /\ xgeom' = xgeom
             \/ OwnDestruction ]_vars

\* the fullscreen, minimize and close chords were pressed in the Runner,
\* with a client's window mapped, and went into its buffer
C14_Witness ==
    /\ m_isRunnerActive
    /\ m_runnerInput \in { << XK_f, XK_m >>, << XK_e, XK_Tab >>, << XK_e, XK_n >> }
    /\ \E w \in Clients : Viewable(St, w) /\ Contains(m_windowList, w)

(***************************************************************************)
(* The Runner dialog.                                                      *)
(***************************************************************************)
\* Return is handled while the Runner is the active dialog
RunnerSubmit ==
    /\ m_isRunnerActive /\ ~ m_isExitConfirmationActive
    /\ KeyPress(XK_Return, {}, FALSE, MaxInput)

\* C15: Return in the Runner hands executeCommand the buffer as typed, once
\* and before the dialog is destroyed (a command is launched unless the
\* buffer is empty); afterwards the Runner is inactive, its window is
\* destroyed and out of the active sequence, and the buffer is empty.
C15_RunnerSubmission ==
    [][ RunnerSubmit =>
          /\ launched' = IF m_runnerInput = << >> THEN << >>
                         ELSE << m_runnerInput >>
          /\ ~ m_isRunnerActive'
          /\ m_runnerWindow' = XCB_NONE
          /\ xstate'[m_runnerWindow] = "none"
          /\ ~ Contains(m_windowList', m_runnerWindow)
          /\ m_runnerInput' = << >> ]_vars

\* a two-character command has just been submitted
C15_Witness ==
    /\ launched = << << XK_y, XK_n >> >>
    /\ ~ m_isRunnerActive
    /\ m_runnerInput = << >>

\* a key of ModalKeys is handled while the Runner is the active dialog
RunnerKey(k) ==
    /\ m_isRunnerActive /\ ~ m_isExitConfirmationActive
    /\ KeyPress(k[1], k[2], FALSE, MaxInput)

\* the reference: a printable keysym is appended, BackSpace drops the last
\* character if there is one, anything else changes nothing
RunnerReference(buf, ks) ==
    IF ks \in 32..126 THEN buf \o << ks >>
    ELSE IF ks = XK_BackSpace /\ Len(buf) > 0
         THEN [ i \in 1..(Len(buf) - 1) |-> buf[i] ]
    ELSE buf

\* C16: the Runner opens with an empty buffer, and every key it is handed
\* other than Escape and Return leaves it open with the buffer the reference
\* gives: keysyms 32..126 appended, the last character removed by BackSpace
\* (nothing on an empty buffer), no change for any other keysym.
C16_RunnerBufferGrammar ==
    [][ /\ (~ m_isRunnerActive /\ m_isRunnerActive') => m_runnerInput' = << >>
        /\ \A k \in ModalKeys :
              (RunnerKey(k) /\ getKeysym(k[1], k[2]) \notin {XK_Escape, XK_Return}) =>
                  /\ m_isRunnerActive'
                  /\ m_runnerInput' =
                        RunnerReference(m_runnerInput, getKeysym(k[1], k[2])) ]_vars

\* the Runner holds what is left of typing f, y and a BackSpace or of f, m
C16_Witness ==
    /\ m_isRunnerActive
    /\ m_runnerInput = << XK_f, XK_m >>

(***************************************************************************)
(* The Exit Confirmation dialog.                                           *)
(***************************************************************************)
\* the step is a key press handled while the Exit Confirmation is active
ExitKey ==
    /\ m_isExitConfirmationActive
    /\ lastApplied'.kind = "key"

\* the step destroys the Exit Confirmation dialog
ExitDialogDestroyed ==
    /\ ~ m_isExitConfirmationActive'
    /\ m_exitConfirmationWindow' = XCB_NONE
    /\ ~ Contains(m_windowList', m_exitConfirmationWindow)
    /\ running'

\* the step changes nothing of the WM or the server
AllUnchanged ==
    UNCHANGED << m_windowList, m_currentWindowIndex, m_minimizedWindows,
                 m_isRunnerActive, m_runnerWindow, m_runnerInput,
                 m_isExitConfirmationActive, m_exitConfirmationWindow,
                 m_isHelpActive, m_helpWindow,
                 m_geometryCache, m_originalGeometry,
                 moveStart, resizeStart, m_screenWidth, m_screenHeight, running,
                 xstate, xgeom, netWmState, enterMask, focus, events >>

\* C17: in the Exit Confirmation, Y and y end the process, N, n and Escape
\* destroy the dialog (no dialog afterwards, its window out of the active
\* sequence), and any other key changes nothing.
C17_ExitGrammar ==
    [][ ExitKey =>
          LET ks == lastApplied'.keysym
          IN  IF ks \in { XK_y, XK_Y } THEN ~ running'
              ELSE IF ks \in { XK_n, KeysymTable(XK_n, 1), XK_Escape }
                   THEN ExitDialogDestroyed
              ELSE AllUnchanged ]_vars

(***************************************************************************)
(* Destroy notifications.                                                  *)
(***************************************************************************)
\* the step is handleDestroyNotify reading the notification at the head
DestroyHandled ==
    /\ events # << >>
    /\ Head(events).type = "DestroyNotify"
    /\ events' = Tail(events)

\* C18: handling the destroy notification of w leaves w out of the active
\* sequence, out of the minimized set and out of the geometry cache, and
\* the current index at 0 if it would point past the end.
C18_DestroyUnregisters ==
    [][ DestroyHandled =>
          LET w == Head(events).window
          IN  /\ ~ Contains(m_windowList', w)
              /\ ~ Contains(m_minimizedWindows', w)
              /\ w \notin DOMAIN m_geometryCache'
              /\ m_currentWindowIndex' >= Len(m_windowList') =>
                     m_currentWindowIndex' = 0 ]_vars

(***************************************************************************)
(* The focus after a removal.                                              *)
(***************************************************************************)
\* the step closes the active dialog
DialogCloses == ActiveDialogs # {} /\ ActiveDialogs' = {}

\* the focus the step leaves is the one resetFocus asks for: the last window
\* of the active sequence (if the server still has it), the root if the
\* sequence is empty
FocusReset ==
    IF m_windowList' # << >>
    THEN LET back == m_windowList'[Len(m_windowList')]
         IN  (back \in Windows /\ xstate'[back] # "none") => focus' = back
    ELSE focus' = Root

\* the step is handleDestroyNotify for a window of the active sequence
DestroyRemoves == DestroyHandled /\ Contains(m_windowList, Head(events).window)

\* C19: a step that closes a dialog, minimizes a window or handles the
\* destroy notification of a window of the active sequence leaves the focus
\* on the last window of the active sequence, or on the root if the
\* sequence is empty.
C19_FocusResetOnRemoval ==
    [][ (DialogCloses \/ MinimizeStep \/ DestroyRemoves) => FocusReset ]_vars

\* the focus is never a window that has been destroyed
FocusNotDestroyed == focus \in Windows => Exists(St, focus)

(***************************************************************************)
(* Button presses and the dialogs.                                         *)
(***************************************************************************)
\* the windows of the dialogs that are active
ActiveDialogWindows ==
    { w \in WindowIds :
        \/ m_isExitConfirmationActive /\ w = m_exitConfirmationWindow
        \/ m_isRunnerActive /\ w = m_runnerWindow
        \/ m_isHelpActive /\ w = m_helpWindow }

\* C20: whichever way a button press on a dialog's window is reported,
\* neither the move slot nor the resize slot holds the window of an active
\* dialog.
C20_DialogNeverGestured ==
    /\ moveStart.window \notin ActiveDialogWindows
    /\ resizeStart.window \notin ActiveDialogWindows

(***************************************************************************)
(* The focus while a dialog is active.                                     *)
(***************************************************************************)
\* C21: while a dialog is active the input focus is on the dialog's window,
\* whatever map requests and pointer entries are handled meanwhile.
C21_DialogKeepsFocus == \A w \in ActiveDialogWindows : focus = w

(***************************************************************************)
(* The Logger.                                                             *)
(***************************************************************************)
\* C22: with the log file opened, the lines written followed by the
\* messages still queued are at every moment the messages log() accepted,
\* each once and in the order of acceptance; and when the worker thread has
\* ended (which needs the destructor to have begun) the queue is empty, so
\* every accepted message is in the file.
C22_LoggerDrains ==
    logger.opened =>
       /\ logger.logFile \o logger.m_queue = logger.accepted
       /\ logger.worker = "done" =>
             /\ logger.logFile = logger.accepted
             /\ logger.main \in {"dtor_notify", "dtor_join", "joined"}

\* the worker thread has ended after writing MaxLogged messages, and is
\* joined
C22_Witness ==
    /\ logger.opened
    /\ logger.worker = "done"
    /\ logger.main = "joined"
    /\ Len(logger.accepted) = MaxLogged
    /\ logger.logFile = [ i \in 1..MaxLogged |-> i ]

\* C30: under fair scheduling of both threads, once the destructor has set
\* m_active to false the worker thread ends and the destructor's join
\* returns.
C30_LoggerShutdownTerminates ==
    (~ logger.m_active) ~> (logger.worker = "done" /\ logger.main = "joined")

\* the destructor found the worker waiting on an empty queue, woke it and
\* joined it
C30_Witness ==
    /\ logger.opened
    /\ logger.accepted = << >>
    /\ logger.worker = "done"
    /\ logger.main = "joined"

(***************************************************************************)
(* Resizing.                                                               *)
(***************************************************************************)
\* a motion event at p is handled while a resize, and no move, is pending
ResizeUpdate(p) ==
    /\ moveStart.window = XCB_NONE
    /\ resizeStart.window # XCB_NONE
    /\ MotionNotify(p[1], p[2])

\* C23: the width and height a resize update applies are the original size
\* plus the pointer's delta, or 50 if that is less, and so never below 50.
C23_ResizeFloor ==
    [][ \A p \in ResizePoints : ResizeUpdate(p) =>
          /\ lastApplied'.width =
                Max(resizeStart.start_width + (p[1] - resizeStart.start_x), MIN_SIZE)
          /\ lastApplied'.height =
                Max(resizeStart.start_height + (p[2] - resizeStart.start_y), MIN_SIZE)
          /\ lastApplied'.width >= MIN_SIZE
          /\ lastApplied'.height >= MIN_SIZE ]_vars

(***************************************************************************)
(* The life of a gesture.                                                  *)
(***************************************************************************)
\* the controller is Idle: neither slot holds a window
GestureIdle == moveStart.window = XCB_NONE /\ resizeStart.window = XCB_NONE

\* a press that handleButtonPress accepts: Alt held, button 1 or 3, a
\* top-level window under the pointer
QualifyingPress ==
    \E w \in Windows \ {Root}, d \in {1, 3}, p \in PressPoints :
       ButtonPress(w, d, p[1], p[2])

\* C24: a button release leaves both slots empty; the controller leaves Idle
\* only by a qualifying press and returns to it only by a release; a motion
\* event changes a geometry only while a slot is taken, and in Idle it
\* issues no configure call and changes nothing.
C24_GestureLifecycle ==
    [][ /\ ButtonRelease => GestureIdle'
        /\ (GestureIdle /\ ~ GestureIdle') => QualifyingPress
        /\ (~ GestureIdle /\ GestureIdle') => ButtonRelease
        /\ \A p \in PressPoints :
              MotionNotify(p[1], p[2]) =>
                 /\ xgeom' # xgeom => ~ GestureIdle
                 /\ GestureIdle => AllUnchanged /\ lastApplied' = NoApplied ]_vars

\* a press was handled, a motion event moved the window and a release
\* returned the controller to Idle
C24_Witness ==
    /\ GestureIdle
    /\ presses > 0
    /\ \E w \in LifecycleClients : Exists(St, w) /\ xgeom[w].x # 100

(***************************************************************************)
(* The geometry query.                                                     *)
(***************************************************************************)
\* what geometry(w) is to return: the cache entry if there is one, else the
\* queried geometry if the query succeeds, else the fallback rectangle
GeometryReference(w) ==
    IF w \in DOMAIN m_geometryCache THEN m_geometryCache[w]
    ELSE IF Exists(St, w) THEN xgeom[w]
    ELSE Geometry(0, 0, 100, 100)

\* the cache geometry(w) is to leave: a new entry only for a query that
\* succeeded
CacheReference(w) ==
    IF w \notin DOMAIN m_geometryCache /\ Exists(St, w)
    THEN MapPut(m_geometryCache, w, xgeom[w])
    ELSE m_geometryCache

\* C25: geometry(w) returns the cache entry without querying if there is
\* one; else the queried geometry, which it caches; else, the query having
\* failed, the rectangle (0, 0, 100, 100) and no cache entry.  A fullscreen
\* toggle saves that value and a map request leaves that cache.
C25_GeometryDegrades ==
    [][ /\ \A w \in Windows \cup {PointerRoot} :
              /\ getWindowGeometry(St, w) = GeometryReference(w)
              /\ getWindowGeometryCached(St, w).m_geometryCache = CacheReference(w)
        /\ (lastApplied'.kind = "fullscreen" /\ lastApplied'.entered) =>
              m_originalGeometry'[lastApplied'.window]
                 = GeometryReference(lastApplied'.window)
        /\ MapRequest(FALSE) =>
              m_geometryCache' = CacheReference(Head(events).window) ]_vars

\* a failed query gave the fallback rectangle to a fullscreen toggle and
\* left no cache entry, and a successful one is cached
C25_Witness ==
    /\ \E w \in DOMAIN m_originalGeometry :
          /\ ~ Exists(St, w)
          /\ m_originalGeometry[w] = FallbackGeometry
          /\ w \notin DOMAIN m_geometryCache
    /\ \E v \in DOMAIN m_geometryCache :
          Exists(St, v) /\ m_geometryCache[v] = xgeom[v]

(***************************************************************************)
(* The close chord.                                                        *)
(***************************************************************************)
\* C26: the close chord issues exactly one of the two actions for the
\* focused window: the close message if the window advertises it, else (not
\* advertised, or the protocols query fails) the destroy request; the
\* message leaves the window alone and the destroy request destroys it.
C26_CloseExactlyOne ==
    [][ lastApplied'.kind = "close" =>
          /\ lastApplied'.window = focus
          /\ lastApplied'.message # lastApplied'.destroy
          /\ \A advertises \in BOOLEAN :
                KeyPress(XK_e, {"Mod1"}, advertises, MaxInput) =>
                   (lastApplied'.message <=> (Exists(St, focus) /\ advertises))
          /\ lastApplied'.message => xstate' = xstate
          /\ lastApplied'.destroy =>
                (focus \in Windows => xstate'[focus] = "none") ]_vars

\* the chord sent the close message to a client window after it had
\* destroyed the other client's window
C26_Witness ==
    /\ lastApplied.kind = "close"
    /\ lastApplied.message
    /\ lastApplied.window \in CloseClients
    /\ \E v \in CloseClients : xstate[v] = "none"

(***************************************************************************)
(* An active dialog and its window.                                        *)
(***************************************************************************)
\* C27: whenever a dialog is active, its window identifier is not null and
\* is in the active sequence.
C27_ActiveDialogRegistered ==
    /\ m_isExitConfirmationActive =>
          /\ m_exitConfirmationWindow # XCB_NONE
          /\ Contains(m_windowList, m_exitConfirmationWindow)
    /\ m_isRunnerActive =>
          /\ m_runnerWindow # XCB_NONE
          /\ Contains(m_windowList, m_runnerWindow)
    /\ m_isHelpActive =>
          /\ m_helpWindow # XCB_NONE
          /\ Contains(m_windowList, m_helpWindow)

(***************************************************************************)
(* What enters the minimized set and the active sequence.                  *)
(***************************************************************************)
\* w is the window of the dialog the step created
DialogCreated(w) ==
    \/ m_isRunnerActive' /\ ~ m_isRunnerActive /\ w = m_runnerWindow'
    \/ m_isExitConfirmationActive' /\ ~ m_isExitConfirmationActive
          /\ w = m_exitConfirmationWindow'
    \/ m_isHelpActive' /\ ~ m_isHelpActive /\ w = m_helpWindow'

\* the step handles a map request for w
MapRequested(w) ==
    /\ events # << >>
    /\ Head(events) = [ type |-> "MapRequest", window |-> w ]
    /\ events' = Tail(events)

\* C28: a window enters the minimized set only from the active sequence,
\* and enters the active sequence only by a map request, by the creation of
\* a dialog or from the minimized set; the root is in neither.
C28_OnlyRegisteredWindows ==
    [][ /\ \A w \in Range(m_minimizedWindows') \ Range(m_minimizedWindows) :
              Contains(m_windowList, w)
        /\ \A w \in Range(m_windowList') \ Range(m_windowList) :
              \/ MapRequested(w)
              \/ DialogCreated(w)
              \/ Contains(m_minimizedWindows, w)
        /\ Root \notin Range(m_minimizedWindows') \cup Range(m_windowList') ]_vars

(***************************************************************************)
(* The geometry cache.                                                     *)
(***************************************************************************)
\* C29: every entry of the geometry cache for a window that exists equals
\* the geometry the window has.
C29_CacheCoherent ==
    \A w \in DOMAIN m_geometryCache :
       Exists(St, w) => m_geometryCache[w] = xgeom[w]

\* the cache holds the geometry of a window that the WM has configured
\* since the window was created
C29_Witness ==
    \E w \in DOMAIN m_geometryCache :
       /\ Exists(St, w)
       /\ m_geometryCache[w] = xgeom[w]
       /\ xgeom[w] # ClientGeometry

====
